---- MODULE Spec2Model ----
(***************************************************************************)
(* Counterfactual diffusion inpainting (src/ai/diffusion/inpainting.py):   *)
(* the noise schedule built by CounterfactualInpainter.__init__, the       *)
(* reverse step p_sample, the sampling loop inpaint and the aggregation    *)
(* sensitivity_analysis.                                                   *)
(*                                                                         *)
(* Tensors are functions over the elements 1..B (B batch entries of one    *)
(* pixel each).  A float is a fixed-point integer (Scale stands for 1.0)   *)
(* or one of the IEEE specials NaN, PInf, NInf, with IEEE's rules for      *)
(* them.  The denoising network and the classifier are deterministic       *)
(* functions picked from small families; torch's global generator is a     *)
(* small deterministic generator whose state is the variable rng.          *)
(***************************************************************************)
EXTENDS Integers, Sequences, FiniteSets, TLC

\* ------------------------------------------------------------ bounds
B == 2
MaxT == 11
MaxSamples == 2

\* ------------------------------------------------------------ floats
Scale == 10000
NaN == 2000000000
PInf == 1900000000
NInf == 0 - PInf
\* a float32 too close to zero for the grid, and so close to zero that adding it
\* to a value of the grid is rounded away (1.0 - Tiny is 1.0)
Tiny == 1800000000
NTiny == 0 - Tiny
\* a Python float below 1.0 that rounds to 1.0 when it is stored as a float32
NearOne == 1700000000
One == Scale

IsInf(a) == a = PInf \/ a = NInf
IsTiny(a) == a = Tiny \/ a = NTiny
IsFinite(a) == a # NaN /\ ~IsInf(a)
Sign(a) == IF a = PInf THEN 1 ELSE IF a = NInf THEN -1 ELSE IF a < 0 THEN -1 ELSE 1
SignedInf(s) == IF s < 0 THEN NInf ELSE PInf
SignedTiny(s) == IF s < 0 THEN NTiny ELSE Tiny

\* the position of a float that is not NaN in the order of the floats
Ord(a) ==
    IF IsInf(a) THEN a
    ELSE IF a = Tiny THEN 1
    ELSE IF a = NTiny THEN -1
    ELSE IF a = NearOne THEN 2 * One - 1
    ELSE 2 * a

\* a < b and a <= b on floats: false when one of them is NaN
FLt(a, b) == a # NaN /\ b # NaN /\ Ord(a) < Ord(b)
FLe(a, b) == a # NaN /\ b # NaN /\ Ord(a) <= Ord(b)

\* a Python float stored in a float32 tensor
Float32(a) == IF a = NearOne THEN One ELSE a

FNeg(a) == IF a = NaN THEN NaN ELSE IF a = PInf THEN NInf ELSE IF a = NInf THEN PInf ELSE 0 - a

FAdd(a, b) ==
    IF a = NaN \/ b = NaN THEN NaN
    ELSE IF IsInf(a) THEN (IF IsInf(b) /\ a # b THEN NaN ELSE a)
    ELSE IF IsInf(b) THEN b
    ELSE IF IsTiny(a) THEN (IF b = 0 \/ b = a THEN a ELSE IF IsTiny(b) THEN 0 ELSE b)
    ELSE IF IsTiny(b) THEN (IF a = 0 THEN b ELSE a)
    ELSE a + b

FSub(a, b) == FAdd(a, FNeg(b))

FMul(a, b) ==
    IF a = NaN \/ b = NaN THEN NaN
    ELSE IF IsInf(a) \/ IsInf(b)
         THEN (IF a = 0 \/ b = 0 THEN NaN ELSE SignedInf(Sign(a) * Sign(b)))
    ELSE IF IsTiny(a) \/ IsTiny(b)
         THEN (IF a = 0 \/ b = 0 THEN 0 ELSE SignedTiny(Sign(a) * Sign(b)))
    ELSE (a * b) \div Scale

FDiv(a, b) ==
    IF a = NaN \/ b = NaN THEN NaN
    ELSE IF IsInf(a) THEN (IF IsInf(b) THEN NaN ELSE SignedInf(Sign(a) * Sign(b)))
    ELSE IF IsInf(b) THEN 0
    ELSE IF b = 0 THEN (IF a = 0 THEN NaN ELSE SignedInf(Sign(a)))
    ELSE IF IsTiny(b)
         THEN (IF a = 0 THEN 0
               ELSE IF IsTiny(a) THEN Sign(a) * Sign(b) * One
               ELSE SignedInf(Sign(a) * Sign(b)))
    ELSE IF IsTiny(a) THEN SignedTiny(Sign(a) * Sign(b))
    ELSE (a * Scale) \div b

\* Newton's iteration for the integer square root, from a guess g that is not
\* below it: the first iterate that does not decrease is the floor of the root
RECURSIVE SqrtSearch(_, _)
SqrtSearch(n, g) ==
    IF (g + n \div g) \div 2 >= g THEN g ELSE SqrtSearch(n, (g + n \div g) \div 2)

\* floor of the square root of a natural number: the mean of n / Scale and Scale
\* is not below their geometric mean, the root of n
ISqrt(n) == IF n = 0 THEN 0 ELSE SqrtSearch(n, (n \div Scale + Scale) \div 2 + 1)

FSqrt(a) ==
    IF a = NaN \/ a = NInf THEN NaN
    ELSE IF a = PInf THEN PInf
    ELSE IF a = Tiny THEN Tiny
    ELSE IF a < 0 THEN NaN
    ELSE ISqrt(a * Scale)

Clamp(a, lo, hi) ==
    IF a = NaN THEN NaN
    ELSE IF a = PInf THEN hi
    ELSE IF a = NInf THEN lo
    ELSE IF a = Tiny THEN (IF lo > 0 THEN lo ELSE IF hi <= 0 THEN hi ELSE a)
    ELSE IF a = NTiny THEN (IF hi < 0 THEN hi ELSE IF lo >= 0 THEN lo ELSE a)
    ELSE IF a < lo THEN lo ELSE IF a > hi THEN hi ELSE a

Idx == 1..B
Zeros == [k \in Idx |-> 0]
\* ------------------------------------------------------------ DiffusionConfig
BetaStart == 1
BetaEnd == 200
SnapshotCount == 10
TimestepChoices == {1, 5} \cup (SnapshotCount..MaxT)
ScheduleChoices == {"linear"}

\* the configs a model is constructed from: timesteps down to -2, the three
\* schedules and a name that is none of them, the default betas, a beta_start
\* below the rounding unit of 1.0, a beta_end that rounds to 1.0, large betas
ConfigTimesteps == (0 - 2)..MaxT
ConfigSchedules == {"linear", "cosine", "quadratic", "sigmoid"}
ConfigBetas ==
    {<<BetaStart, BetaEnd>>, <<Tiny, BetaEnd>>, <<BetaStart, NearOne>>,
     <<Scale \div 2, Scale - 1>>}

\* torch.linspace(a, b, n) for n >= 0
Linspace(a, b, n) ==
    [k \in 1..n |->
        IF n = 1 THEN Float32(a)
        ELSE FAdd(Float32(a), ((k - 1) * FSub(Float32(b), Float32(a))) \div (n - 1))]

\* x ** 0.5 on a Python float
PySqrt(a) == IF a = NearOne THEN NearOne ELSE FSqrt(a)

\* s of line 49 and pi / 2 of line 51
CosineS == 80
HalfPi == 15708

\* torch.cos on [0, pi/2]: the Taylor polynomial of degree 8, in Horner form
FCos(y) ==
    LET y2 == FMul(y, y)
        c4 == FSub(One, FDiv(y2, 56 * One))
        c3 == FSub(One, FMul(FDiv(y2, 30 * One), c4))
        c2 == FSub(One, FMul(FDiv(y2, 12 * One), c3))
    IN  FSub(One, FMul(FDiv(y2, 2 * One), c2))

\* alphas_cumprod of line 51 at step k of T + 1 (k = 0..T)
CosineAlphaBar(k, T) ==
    LET c == FCos(FMul(FDiv(FAdd(FDiv(k * One, T * One), CosineS), One + CosineS), HalfPi))
    IN  FMul(c, c)

\* the bounds of the clamp of line 54
BetaClampMin == 1
BetaClampMax == 9990

\* the cosine schedule without the clamp of line 54
CosineNoClamp(b) == b

\* line 54
CosineClamp(b) == Clamp(b, BetaClampMin, BetaClampMax)

\* lines 48-54
CosineBetas(T) ==
    LET ac == [k \in 1..(T + 1) |-> FDiv(CosineAlphaBar(k - 1, T), CosineAlphaBar(0, T))]
    IN  [k \in 1..T |-> CosineClamp(FSub(One, FDiv(ac[k + 1], ac[k])))]

\* line 45 and line 56: torch.linspace refuses a negative number of steps
LinspaceBetas(a, b, T, squared) ==
    IF T < 0 THEN [err |-> "RuntimeError", betas |-> <<>>]
    ELSE [err |-> "none",
          betas |-> [k \in 1..T |-> IF squared
                                    THEN FMul(Linspace(a, b, T)[k], Linspace(a, b, T)[k])
                                    ELSE Linspace(a, b, T)[k]]]

\* an unknown schedule name taken for the linear schedule
UnknownScheduleIsLinear(schedule, T, beta_start, beta_end) ==
    LinspaceBetas(beta_start, beta_end, T, FALSE)

\* lines 57-58
UnknownSchedule(schedule, T, beta_start, beta_end) ==
    [err |-> "ValueError", betas |-> <<>>]

\* get_beta_schedule: the exception it raises ("none" when it returns) and the
\* tensor it returns.  The cosine schedule with T = -1 reads alphas_cumprod[0] of
\* an empty tensor, with T < -1 it asks linspace for a negative number of steps.
get_beta_schedule(schedule, T, beta_start, beta_end) ==
    IF schedule = "linear" THEN LinspaceBetas(beta_start, beta_end, T, FALSE)
    ELSE IF schedule = "cosine"
         THEN (IF T < 0 - 1 THEN [err |-> "RuntimeError", betas |-> <<>>]
               ELSE IF T = 0 - 1 THEN [err |-> "IndexError", betas |-> <<>>]
               ELSE [err |-> "none", betas |-> CosineBetas(T)])
    ELSE IF schedule = "quadratic"
         THEN LinspaceBetas(PySqrt(beta_start), PySqrt(beta_end), T, TRUE)
    ELSE UnknownSchedule(schedule, T, beta_start, beta_end)

\* torch.cumprod(alphas, dim=0)
RECURSIVE CumProdAt(_, _)
CumProdAt(alphas, k) ==
    IF k = 1 THEN alphas[1] ELSE FMul(CumProdAt(alphas, k - 1), alphas[k])

Alphas(bs) == [k \in 1..Len(bs) |-> FSub(One, bs[k])]
AlphasCumprod(bs) == [k \in 1..Len(bs) |-> CumProdAt(Alphas(bs), k)]

\* alphas_cumprod_prev without the shift
AlphasCumprodPrevUnshifted(ac) == ac

\* F.pad(alphas_cumprod[:-1], (1, 0), value=1.0): one entry even when
\* alphas_cumprod is empty
AlphasCumprodPrev(ac) ==
    [k \in 1..(IF Len(ac) = 0 THEN 1 ELSE Len(ac)) |-> IF k = 1 THEN One ELSE ac[k - 1]]

\* lines 310-311; against an empty betas the one entry of alphas_cumprod_prev
\* is broadcast away
PosteriorVariance(bs, ac, acp) ==
    [k \in 1..Len(bs) |-> FDiv(FMul(bs[k], FSub(One, acp[k])), FSub(One, ac[k]))]

\* the names of the buffers registered by lines 303-312
BufferNames ==
    {"betas", "alphas_cumprod", "alphas_cumprod_prev", "sqrt_alphas_cumprod",
     "sqrt_one_minus_alphas_cumprod", "posterior_variance", "posterior_log_variance"}

\* ------------------------------------------------------------ the global generator
RngStates == 0..4
RngSeeds == {0, 3}
NextRng(r) == (r + 2) % 5
\* the standard-normal value drawn in generator state r
Gauss(r) == <<-12000, 3000, 0, 15000, -5000>>[r + 1]

RECURSIVE RngAfter(_, _)
RngAfter(r, n) == IF n = 0 THEN r ELSE RngAfter(NextRng(r), n - 1)

\* torch.randn_like(x): one draw per element, the generator advanced past them
RandnLike(r) ==
    [vals |-> [k \in Idx |-> Gauss(RngAfter(r, k - 1))], rng |-> RngAfter(r, B)]

\* ------------------------------------------------------------ the denoiser (self.model)
DenoiserKinds == {"zero", "echo", "nan", "inf", "failing"}

\* self.model(x, t, mask), one element: a deterministic function of its inputs
ModelAt(kind, xk, tk, mk) ==
    IF kind \in {"zero", "failing"} THEN 0
    ELSE IF kind = "echo" THEN FSub(xk, mk)
    ELSE IF kind = "nan" THEN (IF tk = 0 THEN NaN ELSE 0)
    ELSE PInf

\* the exception self.model(x, t, mask) raises on the timesteps t, "none" if it
\* returns: the failing denoiser raises when it meets timestep 4
ModelError(kind, t) ==
    IF kind = "failing" /\ \E k \in DOMAIN t : t[k] = 4 THEN "DenoiserFailure" ELSE "none"

\* ------------------------------------------------------------ state
VARIABLES
    timesteps,                      \* config.timesteps
    beta_schedule,                  \* config.beta_schedule
    beta_start, beta_end,           \* config.beta_start, config.beta_end
    betas, alphas_cumprod, alphas_cumprod_prev, posterior_variance,
    sqrt_alphas_cumprod, sqrt_one_minus_alphas_cumprod,
    registered,                     \* the names of the buffers registered so far
    model,                          \* the denoising network
    rng,                            \* state of torch's global generator
    pc,                             \* "new" (not constructed yet), "idle", "loop", "sens_loop", "sens_collect", "returned", "raised"
    caller,                         \* who called inpaint: "top" or "sens"
    error,                          \* the exception that ended the call, or "none"
    image, mask,                    \* the caller's tensors
    arg_num_steps,                  \* inpaint's num_steps argument: {} is None, {n} is n
    num_steps, x, i, intermediates, \* inpaint's locals
    x_init,                         \* the masked initial state of the current inpaint call
    steps,                          \* the p_sample calls of the current inpaint call, in order
    denoiser_calls,                 \* the timesteps the denoiser was run on in that call, in order
    result,                         \* the dictionary inpaint returned last
    prediction_fn, num_samples,     \* sensitivity_analysis's arguments
    original_pred, counterfactual_preds, inpainted_images,
    sample,                         \* samples completed in sensitivity_analysis's loop
    calls,                          \* the calls sensitivity_analysis made, in order
    rng_writer,                     \* the inpaint run that advanced the generator last (0: none)
    rng_reads,                      \* <<reader, writer>> for each generator read inside a run
    analysis,                       \* the dictionary sensitivity_analysis returned
    image2, x2, rng2, denoiser_in2, \* a second inpaint call run beside the first: its image,
    result2,                        \* state, generator, denoiser inputs and result
    ps_args,                        \* the arguments of a direct p_sample call
    ps_out,                         \* the tensor that call returned
    qs_args,                        \* the arguments of a q_sample call
    qs_out,                         \* the tensor that call returned
    guidance_scale,                 \* inpaint's guidance_scale argument
    guidance_scale2,                \* the guidance_scale of the call made before, "none" if none
    users,                          \* the rows of the user table, in insertion order
    reg,                            \* the register requests: email, position, response status
    me_log,                         \* the GET /auth/me requests answered so far
    case_row,                       \* the stored case
    upd                             \* the last case update request and its response

config_vars == <<timesteps, beta_schedule, beta_start, beta_end>>
buffer_vars == <<betas, alphas_cumprod, alphas_cumprod_prev, posterior_variance,
                 sqrt_alphas_cumprod, sqrt_one_minus_alphas_cumprod, registered>>
schedule_vars == <<config_vars, buffer_vars, model>>
inpaint_vars == <<image, mask, arg_num_steps, guidance_scale, num_steps, x, i, intermediates, x_init,
                  steps, denoiser_calls, result>>
sens_vars == <<prediction_fn, num_samples, original_pred, counterfactual_preds,
               inpainted_images, sample, calls, analysis>>
twin_vars == <<image2, x2, rng2, denoiser_in2, result2, guidance_scale2>>
call_vars == <<ps_args, ps_out, qs_args, qs_out>>
api_vars == <<users, reg, me_log, case_row, upd>>
model_vars == <<schedule_vars, rng, pc, caller, error, inpaint_vars, sens_vars, rng_writer,
                rng_reads, twin_vars, call_vars>>
vars == <<model_vars, api_vars>>

\* ------------------------------------------------------------ p_sample
\* buf[t] for a registered buffer and an index tensor entry (negative entries wrap)
At(buf, tk) == buf[(IF tk < 0 THEN tk + Len(buf) ELSE tk) + 1]
InRange(tk) == tk >= 0 - timesteps /\ tk < timesteps

\* a predicted clean image whose noise estimate is scaled by guidance_scale
X0PredGuided(xk, eps, alpha_bar) ==
    Clamp(FDiv(FSub(xk, FMul(FSqrt(FSub(One, alpha_bar)), FMul(guidance_scale, eps))),
               FSqrt(alpha_bar)),
          0 - One, One)

\* x0_pred, clamped (lines 350-351)
X0Pred(xk, eps, alpha_bar) ==
    Clamp(FDiv(FSub(xk, FMul(FSqrt(FSub(One, alpha_bar)), eps)), FSqrt(alpha_bar)),
          0 - One, One)

\* the posterior mean (lines 353-354)
PosteriorMean(xk, x0, beta, alpha_bar, alpha_bar_prev) ==
    FAdd(FMul(FDiv(FMul(FSqrt(alpha_bar_prev), beta), FSub(One, alpha_bar)), x0),
         FMul(FDiv(FMul(FSqrt(FSub(One, beta)), FSub(One, alpha_bar_prev)),
                   FSub(One, alpha_bar)), xk))

\* the test of line 357 with >= in place of >
DrawsNoiseAlways(t) == t[1] >= 0

\* the test of line 357: only the first batch entry's timestep is looked at
DrawsNoise(t) == t[1] > 0

\* the mask constraint with mask and 1 - mask exchanged
ApplyMaskSwapped(xk, mk, ok) == FAdd(FMul(xk, FSub(One, mk)), FMul(ok, mk))

\* the mask constraint (line 366)
ApplyMask(xk, mk, ok) == FAdd(FMul(xk, mk), FMul(ok, FSub(One, mk)))

\* lines 356-362 for one element: the posterior mean, plus noise when noise is drawn
Sampled(mean, variance, noise, draws) ==
    IF draws THEN FAdd(mean, FMul(FSqrt(variance), noise)) ELSE mean

\* one element of the tensor p_sample returns
PSampleAt(xk, tk, mk, ok, has_original, eps, noise, draws) ==
    LET mean == PosteriorMean(xk, X0Pred(xk, eps, At(alphas_cumprod, tk)),
                              At(betas, tk), At(alphas_cumprod, tk),
                              At(alphas_cumprod_prev, tk))
        sampled == Sampled(mean, At(posterior_variance, tk), noise, draws)
    IN  IF has_original THEN ApplyMask(sampled, mk, ok) ELSE sampled

\* entry k of a tensor in an elementwise operation: a batch of one is broadcast
Elem(v, k) == IF Len(v) = 1 THEN v[1] ELSE v[k]

\* mask.expand_as(x) (line 251) and the elementwise operations of line 366 accept
\* a batch of one beside a batch of n, and no other disagreement
Broadcasts(m, n) == m = n \/ m = 1

\* p_sample(x, t, mask, original) in generator state r: the tensor returned, the
\* generator state left behind, whether noise was drawn, the exception raised
\* (t has one entry per entry of x)
p_sample(xin, t, m, original, has_original, r) ==
    IF ~Broadcasts(Len(m), Len(xin))
    THEN [x |-> xin, rng |-> r, drew |-> FALSE, err |-> "RuntimeError"]
    ELSE IF ModelError(model, t) # "none"
    THEN [x |-> xin, rng |-> r, drew |-> FALSE, err |-> ModelError(model, t)]
    ELSE IF \E k \in Idx : ~InRange(t[k])
    THEN [x |-> xin, rng |-> r, drew |-> FALSE, err |-> "IndexError"]
    ELSE IF has_original /\ ~Broadcasts(Len(original), Len(xin))
    THEN [x |-> xin, rng |-> IF DrawsNoise(t) THEN RngAfter(r, B) ELSE r,
          drew |-> DrawsNoise(t), err |-> "RuntimeError"]
    ELSE [x |-> [k \in Idx |->
                    PSampleAt(xin[k], t[k], Elem(m, k), Elem(original, k), has_original,
                              ModelAt(model, xin[k], t[k], Elem(m, k)),
                              Gauss(RngAfter(r, k - 1)), DrawsNoise(t))],
          rng |-> IF DrawsNoise(t) THEN RngAfter(r, B) ELSE r,
          drew |-> DrawsNoise(t),
          err |-> "none"]

\* an exception that swallows the denoiser's failure instead of letting it pass
PropagatesExceptDenoiser(err) == err \notin {"none", "DenoiserFailure"}

\* an exception that swallows the classifier's failure instead of letting it pass
PropagatesExceptPredictor(err) == err \notin {"none", "PredictorFailure"}

\* inpaint and sensitivity_analysis have no try statement: whatever a call inside
\* them raises ends them (lines 400-405, 436-450)
Propagates(err) == err # "none"

\* ------------------------------------------------------------ inputs
ImageVals == {0 - Scale, Scale \div 2}
Images == [Idx -> ImageVals]
Masks == [Idx -> {0, One}]
NumStepsArgs ==
    {{}} \cup {{n} : n \in (-1..1) \cup {5} \cup (SnapshotCount..(timesteps + 1))}
NoArgs == [x |-> <<>>, t |-> <<>>, mask |-> <<>>, original |-> {}]
NoQArgs == [x_start |-> <<>>, t |-> <<>>, noise |-> {}]
NoResult == [inpainted |-> <<>>, original |-> <<>>, mask |-> <<>>, intermediates |-> <<>>]

\* ------------------------------------------------------------ the constructed model
\* lines 290-312: the exception that ends the construction ("none" when it goes
\* through) and the buffers it registers
Buffers(schedule, T, bstart, bend) ==
    LET sched == get_beta_schedule(schedule, T, bstart, bend)
        ac == AlphasCumprod(sched.betas)
        acp == AlphasCumprodPrev(ac)
    IN  [err |-> sched.err,
         betas |-> sched.betas,
         alphas_cumprod |-> ac,
         alphas_cumprod_prev |-> acp,
         sqrt_alphas_cumprod |-> [k \in 1..Len(ac) |-> FSqrt(ac[k])],
         sqrt_one_minus_alphas_cumprod |-> [k \in 1..Len(ac) |-> FSqrt(FSub(One, ac[k]))],
         posterior_variance |-> PosteriorVariance(sched.betas, ac, acp)]

\* the default of inpaint's guidance_scale argument (line 376)
GuidanceDefault == Scale
\* ------------------------------------------------------------ the HTTP API's state
\* requests of one kind that a run of the API model answers
MaxRequests == 3
RegIds == 1..MaxRequests
Emails == {"a@example.org", "b@example.org"}

\* a register request that has not arrived
NoRegister == [email |-> "none", pc |-> "idle", status |-> 0]

\* CaseStatus (models.py lines 44-50) and the default of Case.status
CaseStatusValues == {"pending", "processing", "completed", "failed", "archived"}
NewCase == [status |-> "pending", tags |-> <<>>]
NoUpdate ==
    [req |-> [method |-> "none", role |-> "none", case_id |-> "none", status |-> "absent",
              tags |-> {}],
     status_code |-> 0, returned |-> "none"]

\* an empty database holding one case, no request made yet
ApiIdle ==
    /\ users = <<>>
    /\ reg = [r \in RegIds |-> NoRegister]
    /\ me_log = <<>>
    /\ case_row = NewCase
    /\ upd = NoUpdate

\* a call has ended, by returning or by raising
Finished == pc \in {"returned", "raised"}

\* nothing has been called yet
NoCall ==
    /\ caller = "top" /\ error = "none"
    /\ image = Zeros /\ mask = Zeros /\ arg_num_steps = {} /\ guidance_scale = GuidanceDefault
    /\ num_steps = 0 /\ x = Zeros /\ i = 0 /\ intermediates = <<>>
    /\ x_init = Zeros /\ steps = <<>> /\ denoiser_calls = <<>> /\ result = NoResult
    /\ prediction_fn = "none" /\ num_samples = 0
    /\ original_pred = <<>> /\ counterfactual_preds = <<>> /\ inpainted_images = <<>>
    /\ sample = 0 /\ calls = <<>> /\ analysis = <<>>
    /\ rng_writer = 0 /\ rng_reads = {}
    /\ image2 = Zeros /\ x2 = Zeros /\ rng2 = rng /\ denoiser_in2 = <<>> /\ result2 = NoResult
    /\ ps_args = NoArgs /\ ps_out = <<>>
    /\ qs_args = NoQArgs /\ qs_out = <<>>
    /\ guidance_scale2 = {}
    /\ ApiIdle

\* a model constructed from a config with the default betas
\* the state after CounterfactualInpainter(config) with a config whose timesteps
\* are drawn from Ts and whose other fields are the defaults
Constructed(Ts) ==
    /\ timesteps \in Ts
    /\ beta_schedule \in ScheduleChoices
    /\ beta_start = BetaStart /\ beta_end = BetaEnd
    /\ \E c \in {Buffers(beta_schedule, timesteps, beta_start, beta_end)} :
          /\ betas = c.betas
          /\ alphas_cumprod = c.alphas_cumprod
          /\ alphas_cumprod_prev = c.alphas_cumprod_prev
          /\ sqrt_alphas_cumprod = c.sqrt_alphas_cumprod
          /\ sqrt_one_minus_alphas_cumprod = c.sqrt_one_minus_alphas_cumprod
          /\ posterior_variance = c.posterior_variance
    /\ registered = BufferNames
    /\ model \in DenoiserKinds
    /\ rng \in RngSeeds
    /\ pc = "idle"
    /\ NoCall

Init == Constructed(TimestepChoices)

\* ------------------------------------------------------------ construction
\* a config, and no model yet
InitConfig ==
    /\ timesteps \in ConfigTimesteps
    /\ beta_schedule \in ConfigSchedules
    /\ \E b \in ConfigBetas : beta_start = b[1] /\ beta_end = b[2]
    /\ betas = <<>> /\ alphas_cumprod = <<>> /\ alphas_cumprod_prev = <<>>
    /\ sqrt_alphas_cumprod = <<>> /\ sqrt_one_minus_alphas_cumprod = <<>>
    /\ posterior_variance = <<>>
    /\ registered = {}
    /\ model = "none"
    /\ rng \in RngSeeds
    /\ pc = "new"
    /\ NoCall

\* CounterfactualInpainter(config), lines 286-315
Construct ==
    /\ pc = "new"
    /\ \E c \in {Buffers(beta_schedule, timesteps, beta_start, beta_end)} :
          IF Propagates(c.err)
          THEN /\ pc' = "raised" /\ error' = c.err
               /\ UNCHANGED <<buffer_vars, model>>
          ELSE /\ betas' = c.betas
               /\ alphas_cumprod' = c.alphas_cumprod
               /\ alphas_cumprod_prev' = c.alphas_cumprod_prev
               /\ sqrt_alphas_cumprod' = c.sqrt_alphas_cumprod
               /\ sqrt_one_minus_alphas_cumprod' = c.sqrt_one_minus_alphas_cumprod
               /\ posterior_variance' = c.posterior_variance
               /\ registered' = BufferNames
               /\ \E m \in DenoiserKinds : model' = m
               /\ pc' = "idle"
               /\ UNCHANGED error
    /\ UNCHANGED <<config_vars, rng, caller, inpaint_vars, sens_vars, rng_writer, rng_reads,
                   twin_vars, call_vars, api_vars>>

NextSchedule == Construct
SpecSchedule == InitConfig /\ [][NextSchedule]_vars

\* ------------------------------------------------------------ inpaint
\* the initial state with the image added everywhere, not only outside the mask
MaskedNoiseKeepsImage(nk, mk, ik) == FAdd(FMul(nk, mk), ik)

\* line 396: noise inside the mask, the image outside
MaskedNoise(nk, mk, ik) == FAdd(FMul(nk, mk), FMul(ik, FSub(One, mk)))

\* num_steps = num_steps or self.config.timesteps (line 392)
EffectiveSteps(arg) ==
    IF arg = {} \/ arg = {0} THEN timesteps ELSE CHOOSE n \in arg : TRUE

\* lines 390-399: the locals of a fresh call, x the masked initial state
InpaintBegin(img, msk, arg, g, run) ==
    LET draw == RandnLike(rng)
        x0 == [k \in Idx |-> MaskedNoise(draw.vals[k], msk[k], img[k])]
    IN  /\ image' = img /\ mask' = msk /\ arg_num_steps' = arg /\ guidance_scale' = g
        /\ num_steps' = EffectiveSteps(arg)
        /\ x' = x0 /\ x_init' = x0
        /\ rng' = draw.rng
        /\ rng_reads' = rng_reads \cup {<<run, rng_writer>>}
        /\ rng_writer' = run
        /\ i' = EffectiveSteps(arg) - 1
        /\ intermediates' = <<>> /\ steps' = <<>> /\ denoiser_calls' = <<>>
        /\ pc' = "loop" /\ error' = "none"

CurrentRun == IF caller = "sens" THEN sample + 1 ELSE 1

\* a call of inpaint by the program's user, its guidance_scale drawn from G
CallInpaintWith(G) ==
    /\ pc = "idle"
    /\ \E img \in Images, msk \in Masks, arg \in NumStepsArgs, g \in G :
          InpaintBegin(img, msk, arg, g, 1)
    /\ caller' = "top"
    /\ UNCHANGED <<schedule_vars, result, sens_vars>>

\* a call of inpaint that leaves guidance_scale at its default
CallInpaint == CallInpaintWith({GuidanceDefault})

\* the snapshot test of line 404 divides by num_steps // 10
SnapshotEvery == num_steps \div SnapshotCount

\* the test of line 404 counting the steps from the other end
TakesSnapshotShifted(ii) == (ii + 1) % SnapshotEvery = 0

\* the test of line 404 counting the steps done, not the timestep
TakesSnapshotFromTop(ii) == (num_steps - 1 - ii) % SnapshotEvery = 0

\* the test of line 404
TakesSnapshot(ii) == ii % SnapshotEvery = 0

\* one iteration of the loop of lines 400-405
LoopStep ==
    /\ pc = "loop" /\ i >= 0
    /\ \E r \in {p_sample(x, [k \in Idx |-> i], mask, image, TRUE, rng)} :
           IF Propagates(r.err)
           THEN /\ pc' = "raised" /\ error' = r.err
                /\ UNCHANGED <<x, rng, steps, intermediates, i, rng_writer, rng_reads>>
           ELSE /\ x' = r.x /\ rng' = r.rng
                /\ steps' = Append(steps, [t |-> i, x_in |-> x, x_out |-> r.x, drew |-> r.drew])
                /\ rng_reads' = IF r.drew
                                THEN rng_reads \cup {<<CurrentRun, rng_writer>>}
                                ELSE rng_reads
                /\ rng_writer' = IF r.drew THEN CurrentRun ELSE rng_writer
                /\ IF SnapshotEvery = 0
                   THEN /\ pc' = "raised" /\ error' = "ZeroDivisionError"
                        /\ UNCHANGED <<intermediates, i>>
                   ELSE /\ intermediates' = IF TakesSnapshot(i)
                                            THEN Append(intermediates, r.x)
                                            ELSE intermediates
                        /\ i' = i - 1
                        /\ UNCHANGED <<pc, error>>
    /\ denoiser_calls' = Append(denoiser_calls, i)
    /\ UNCHANGED <<schedule_vars, caller, image, mask, arg_num_steps, guidance_scale,
                   num_steps, x_init, result, sens_vars>>

\* a dictionary whose "original" entry is the working tensor, not the image
InpaintResultAliased(xx, img, msk, inter) ==
    [inpainted |-> xx, original |-> xx, mask |-> msk, intermediates |-> inter]

\* the dictionary of lines 407-412
InpaintResult(xx, img, msk, inter) ==
    [inpainted |-> xx, original |-> img, mask |-> msk, intermediates |-> inter]

\* lines 407-412: the loop is over, the dictionary goes back to the caller
InpaintReturn ==
    /\ pc = "loop" /\ i < 0
    /\ result' = InpaintResult(x, image, mask, intermediates)
    /\ pc' = IF caller = "sens" THEN "sens_collect" ELSE "returned"
    /\ UNCHANGED <<schedule_vars, rng, caller, error, image, mask, arg_num_steps,
                   guidance_scale, num_steps, x, i, intermediates, x_init, steps,
                   denoiser_calls, sens_vars, rng_writer, rng_reads>>

NextInpaint ==
    \/ CallInpaint /\ UNCHANGED <<twin_vars, call_vars, api_vars>>
    \/ LoopStep /\ UNCHANGED <<twin_vars, call_vars, api_vars>>
    \/ InpaintReturn /\ UNCHANGED <<twin_vars, call_vars, api_vars>>
SpecInpaint == Init /\ [][NextInpaint]_vars
\* ------------------------------------------------------------ sensitivity_analysis
PredictionFns == {"const", "score", "raising"}

\* the exception prediction_fn(image) raises, "none" if it returns: the raising
\* classifier refuses an image whose first entry is 0.25 or more
PredictError(fn, img) ==
    IF fn = "raising" /\ img[1] >= Scale \div 4 THEN "PredictorFailure" ELSE "none"

\* prediction_fn(image): one score per batch entry, a deterministic function
Predict(fn, img) ==
    [k \in Idx |->
        IF fn = "const" THEN Scale \div 4
        ELSE FAdd(FMul(img[k], Scale \div 2), Scale \div 2)]

RECURSIVE SumAt(_, _, _)
SumAt(ts, k, n) == IF n = 0 THEN 0 ELSE FAdd(SumAt(ts, k, n - 1), ts[n][k])

\* a sum that is never divided by the count
MeanAtUndivided(ts, k) == SumAt(ts, k, Len(ts))

\* torch.Tensor.mean(dim=0) of the stacked tensors, element k
MeanAt(ts, k) ==
    LET sum == SumAt(ts, k, Len(ts))
    IN  IF IsFinite(sum) THEN sum \div Len(ts) ELSE sum

RECURSIVE SumSqAt(_, _, _, _)
SumSqAt(ts, k, m, n) ==
    IF n = 0 THEN 0
    ELSE FAdd(SumSqAt(ts, k, m, n - 1), FMul(FSub(ts[n][k], m), FSub(ts[n][k], m)))

\* the divisor of torch.Tensor.std: Bessel's correction, N - 1
StdDivisor(n) == n - 1

\* torch.Tensor.std(dim=0), element k
StdAt(ts, k) ==
    LET sumsq == SumSqAt(ts, k, MeanAt(ts, k), Len(ts))
        d == StdDivisor(Len(ts))
    IN  IF ~IsFinite(sumsq) THEN NaN
        ELSE IF d <= 0 THEN (IF sumsq = 0 /\ d = 0 THEN NaN ELSE PInf)
        ELSE FSqrt(sumsq \div d)

\* lines 456-469
Statistics(orig, preds, images) ==
    [original_prediction |-> orig,
     counterfactual_mean |-> [k \in Idx |-> MeanAt(preds, k)],
     counterfactual_std |-> [k \in Idx |-> StdAt(preds, k)],
     sensitivity |-> [k \in Idx |-> FSub(orig[k], MeanAt(preds, k))],
     sensitivity_confidence |-> [k \in Idx |-> FDiv(One, FAdd(One, StdAt(preds, k)))],
     inpainted_samples |-> images]

\* The mean of line 456 is a float32 sum divided by the count. The sum of two or
\* of four equal float32 values and its division are exact; the sum of three, or
\* of five or more, is rounded, and the quotient can land on a float next to the
\* value. The grid does not tell such neighbours apart, their difference does.
ExactMeanCounts == {1, 2, 4}

\* what the rounding of element k's mean leaves of a difference the grid shows as 0
MeanResidues(ts, k) ==
    IF Len(ts) \in ExactMeanCounts /\ \A n \in 1..Len(ts) : ts[n][k] = ts[1][k]
    THEN {0}
    ELSE {NTiny, 0, Tiny}

\* line 460: original_pred - counterfactual_mean, with the mean's rounding
Rounded(stats, res) ==
    [stats EXCEPT !.sensitivity = [k \in Idx |-> FAdd(stats.sensitivity[k], res[k])]]

\* the function's default num_samples (line 419)
DefaultSamples == 5

\* lines 433-441: the original prediction, then the loop starts
CallSensitivityWith(Ns) ==
    /\ pc = "idle"
    /\ \E img \in Images, msk \in Masks, fn \in PredictionFns, n \in Ns :
          /\ image' = img /\ mask' = msk /\ prediction_fn' = fn /\ num_samples' = n
          /\ calls' = <<[fn |-> "prediction_fn", arg |-> img]>>
          /\ IF Propagates(PredictError(fn, img))
             THEN /\ pc' = "raised" /\ error' = PredictError(fn, img)
                  /\ original_pred' = <<>>
             ELSE /\ pc' = "sens_loop" /\ error' = "none"
                  /\ original_pred' = Predict(fn, img)
    /\ counterfactual_preds' = <<>> /\ inpainted_images' = <<>> /\ sample' = 0
    /\ caller' = "sens"
    /\ UNCHANGED <<schedule_vars, rng, arg_num_steps, guidance_scale, num_steps, x, i,
                   intermediates, x_init, steps, denoiser_calls, result, analysis,
                   rng_writer, rng_reads>>

CallSensitivity == CallSensitivityWith(0..MaxSamples)

\* line 444: the next sample's inpaint call
SensIter ==
    /\ pc = "sens_loop" /\ sample < num_samples
    /\ InpaintBegin(image, mask, {}, GuidanceDefault, sample + 1)
    /\ calls' = Append(calls, [fn |-> "inpaint", arg |-> image])
    /\ UNCHANGED <<schedule_vars, caller, result, prediction_fn, num_samples, original_pred,
                   counterfactual_preds, inpainted_images, sample, analysis>>

\* lines 445-450: the sample is kept and scored
SensCollect ==
    /\ pc = "sens_collect"
    /\ inpainted_images' = Append(inpainted_images, result.inpainted)
    /\ calls' = Append(calls, [fn |-> "prediction_fn", arg |-> result.inpainted])
    /\ IF Propagates(PredictError(prediction_fn, result.inpainted))
       THEN /\ pc' = "raised" /\ error' = PredictError(prediction_fn, result.inpainted)
            /\ UNCHANGED <<counterfactual_preds, sample>>
       ELSE /\ counterfactual_preds' =
                  Append(counterfactual_preds, Predict(prediction_fn, result.inpainted))
            /\ sample' = sample + 1
            /\ pc' = "sens_loop"
            /\ UNCHANGED error
    /\ UNCHANGED <<schedule_vars, rng, caller, inpaint_vars, prediction_fn,
                   num_samples, original_pred, analysis, rng_writer, rng_reads>>

\* lines 452-469: torch.stack refuses an empty list; otherwise the statistics
SensFinish ==
    /\ pc = "sens_loop" /\ sample >= num_samples
    /\ IF counterfactual_preds = <<>>
       THEN /\ pc' = "raised" /\ error' = "RuntimeError"
            /\ UNCHANGED analysis
       ELSE /\ \E stats \in {Statistics(original_pred, counterfactual_preds,
                                           inpainted_images)},
                  res \in [Idx -> {NTiny, 0, Tiny}] :
                  /\ \A k \in Idx : res[k] \in MeanResidues(counterfactual_preds, k)
                  /\ analysis' = Rounded(stats, res)
            /\ pc' = "returned"
            /\ UNCHANGED error
    /\ UNCHANGED <<schedule_vars, rng, caller, inpaint_vars, prediction_fn, num_samples,
                   original_pred, counterfactual_preds, inpainted_images, sample, calls,
                   rng_writer, rng_reads>>

NextSens ==
    \/ CallSensitivity /\ UNCHANGED <<twin_vars, call_vars, api_vars>>
    \/ SensIter /\ UNCHANGED <<twin_vars, call_vars, api_vars>>
    \/ LoopStep /\ UNCHANGED <<twin_vars, call_vars, api_vars>>
    \/ InpaintReturn /\ UNCHANGED <<twin_vars, call_vars, api_vars>>
    \/ SensCollect /\ UNCHANGED <<twin_vars, call_vars, api_vars>>
    \/ SensFinish /\ UNCHANGED <<twin_vars, call_vars, api_vars>>
SpecSens == Init /\ [][NextSens]_vars

\* sensitivity_analysis with two samples up to the default five
CallSensitivityDefault == CallSensitivityWith(2..DefaultSamples)

NextSensDefault ==
    \/ CallSensitivityDefault /\ UNCHANGED <<twin_vars, call_vars, api_vars>>
    \/ SensIter /\ UNCHANGED <<twin_vars, call_vars, api_vars>>
    \/ LoopStep /\ UNCHANGED <<twin_vars, call_vars, api_vars>>
    \/ InpaintReturn /\ UNCHANGED <<twin_vars, call_vars, api_vars>>
    \/ SensCollect /\ UNCHANGED <<twin_vars, call_vars, api_vars>>
    \/ SensFinish /\ UNCHANGED <<twin_vars, call_vars, api_vars>>
\* a model too short for the snapshot interval, and the two shortest that are not
InitSensDefault == Constructed({5, SnapshotCount, SnapshotCount + 1}) /\ rng = 0
SpecSensDefault == InitSensDefault /\ [][NextSensDefault]_vars
\* ------------------------------------------------------------ two inpaint calls side by side
\* The second call has the first one's mask, num_steps, denoiser and generator
\* state, and another image.
OtherImage(img) == [k \in Idx |-> IF img[k] = 0 - Scale THEN Scale \div 2 ELSE 0 - Scale]

TwinCall ==
    /\ CallInpaint
    /\ image2' = OtherImage(image')
    /\ x2' = [k \in Idx |-> MaskedNoise(RandnLike(rng2).vals[k], mask'[k], image2'[k])]
    /\ rng2' = RandnLike(rng2).rng
    /\ denoiser_in2' = <<>>
    /\ UNCHANGED <<result2, guidance_scale2, call_vars, api_vars>>

TwinStep ==
    /\ LoopStep
    /\ \E r \in {p_sample(x2, [k \in Idx |-> i], mask, image2, TRUE, rng2)} :
          IF Propagates(r.err)
          THEN UNCHANGED <<x2, rng2, denoiser_in2>>
          ELSE x2' = r.x /\ rng2' = r.rng /\ denoiser_in2' = Append(denoiser_in2, x2)
    /\ UNCHANGED <<image2, result2, guidance_scale2, call_vars, api_vars>>

TwinReturn ==
    /\ InpaintReturn
    /\ result2' = InpaintResult(x2, image2, mask, <<>>)
    /\ UNCHANGED <<image2, x2, rng2, denoiser_in2, guidance_scale2, call_vars, api_vars>>

NextTwin == TwinCall \/ TwinStep \/ TwinReturn
SpecTwin == Init /\ [][NextTwin]_vars

\* ------------------------------------------------------------ p_sample called directly
\* timesteps a caller may pass: inside the schedule, and just outside on both sides
TimestepArgs == {0 - timesteps - 1, 0 - 1, 0, timesteps - 1, timesteps}

\* masks and originals of the batch of x, of a batch of one, of a batch of B + 1
MaskArgs == Masks \cup {<<0>>, <<One>>, [k \in 1..(B + 1) |-> One]}
OriginalArgs ==
    {{}} \cup {{o} : o \in {[k \in Idx |-> Scale \div 2], <<0 - Scale>>,
                             [k \in 1..(B + 1) |-> 0 - Scale]}}

\* lines 332-368, called by a user of the class
CallPSample ==
    /\ pc = "idle"
    /\ \E xx \in Images, tt \in [Idx -> TimestepArgs], mm \in MaskArgs, oo \in OriginalArgs :
          \E r \in {p_sample(xx, tt, mm, IF oo = {} THEN Zeros ELSE CHOOSE o \in oo : TRUE,
                              oo # {}, rng)} :
             /\ ps_args' = [x |-> xx, t |-> tt, mask |-> mm, original |-> oo]
             /\ ps_out' = IF r.err = "none" THEN r.x ELSE <<>>
             /\ rng' = r.rng
             /\ pc' = IF r.err = "none" THEN "returned" ELSE "raised"
             /\ error' = r.err
    /\ caller' = "p_sample"
    /\ UNCHANGED <<schedule_vars, inpaint_vars, sens_vars, rng_writer, rng_reads, twin_vars,
                   qs_args, qs_out, api_vars>>

NextPSample == CallPSample
SpecPSample == Init /\ [][NextPSample]_vars

\* ------------------------------------------------------------ q_sample
\* line 330 with the two coefficients exchanged
QSampleAtSwapped(x0k, sqrt_alpha, sqrt_one_minus_alpha, nk) ==
    FAdd(FMul(sqrt_one_minus_alpha, x0k), FMul(sqrt_alpha, nk))

\* line 330 for one element
QSampleAt(x0k, sqrt_alpha, sqrt_one_minus_alpha, nk) ==
    FAdd(FMul(sqrt_alpha, x0k), FMul(sqrt_one_minus_alpha, nk))

\* q_sample(x_start, t, noise) in generator state r (noise is {} for None): noise
\* is drawn first when it is missing, then the buffers are indexed
q_sample(x_start, t, noise, r) ==
    LET drawn == noise = {}
        nz == IF drawn THEN RandnLike(r).vals ELSE CHOOSE n \in noise : TRUE
        after == IF drawn THEN RandnLike(r).rng ELSE r
    IN  IF \E k \in Idx : ~InRange(t[k])
        THEN [x |-> <<>>, rng |-> after, drew |-> drawn, err |-> "IndexError"]
        ELSE IF ~Broadcasts(Len(nz), Len(x_start))
        THEN [x |-> <<>>, rng |-> after, drew |-> drawn, err |-> "RuntimeError"]
        ELSE [x |-> [k \in Idx |->
                        QSampleAt(x_start[k], At(sqrt_alphas_cumprod, t[k]),
                                  At(sqrt_one_minus_alphas_cumprod, t[k]), Elem(nz, k))],
              rng |-> after, drew |-> drawn, err |-> "none"]

\* timesteps a caller may pass: both ends of the schedule, the last one counted
\* from the end, and the first one past the end
QTimestepArgs == {0 - 1, 0, timesteps - 1, timesteps}

\* None, the all-zero tensor (of the batch of x_start and of a batch of one), a
\* tensor of ones, and a tensor of a batch of B + 1
NoiseArgs ==
    {{}} \cup {{n} : n \in {Zeros, <<0>>, [k \in Idx |-> One], [k \in 1..(B + 1) |-> 0]}}

\* lines 317-330, called by a user of the class
CallQSample ==
    /\ pc = "idle"
    /\ \E xx \in Images, tt \in [Idx -> QTimestepArgs], nn \in NoiseArgs :
          \E r \in {q_sample(xx, tt, nn, rng)} :
             /\ qs_args' = [x_start |-> xx, t |-> tt, noise |-> nn]
             /\ qs_out' = r.x
             /\ rng' = r.rng
             /\ pc' = IF r.err = "none" THEN "returned" ELSE "raised"
             /\ error' = r.err
    /\ caller' = "q_sample"
    /\ UNCHANGED <<schedule_vars, inpaint_vars, sens_vars, rng_writer, rng_reads, twin_vars,
                   ps_args, ps_out, api_vars>>

NextQSample == CallQSample
SpecQSample == Init /\ [][NextQSample]_vars

\* ------------------------------------------------------------ inpaint on a long schedule
\* a schedule long enough for num_steps // 10 to be 2
LongT == MaxT + SnapshotCount
InitLong == Constructed({LongT}) /\ rng = 0
SpecLong == InitLong /\ [][NextInpaint]_vars

\* ------------------------------------------------------------ inpaint twice, guidance_scale apart
\* values a caller passes for guidance_scale: none, the default, 7.5
GuidanceScales == {0, GuidanceDefault, 75000}

\* what the caller keeps of a finished call
Outcome == [res |-> result, err |-> error, steps |-> steps, x |-> x]

\* between the two calls the caller keeps the first outcome and sets the
\* generator back to the state the first call started from, so that the second
\* call's torch.randn_like draws (lines 395 and 358) are the first call's
ManualSeed ==
    /\ Finished /\ caller = "top" /\ guidance_scale2 = {}
    /\ result2' = Outcome /\ guidance_scale2' = {guidance_scale}
    /\ rng' = rng2 /\ rng_writer' = 0
    /\ result' = NoResult /\ error' = "none"
    /\ pc' = "again"
    /\ UNCHANGED <<schedule_vars, caller, image, mask, arg_num_steps, guidance_scale,
                   num_steps, x, i, intermediates, x_init, steps, denoiser_calls,
                   sens_vars, rng_reads, image2, x2, rng2, denoiser_in2>>

\* the second call: the first call's image, mask and num_steps, another guidance_scale
CallAgain ==
    /\ pc = "again"
    /\ \E g \in GuidanceScales \ guidance_scale2 :
          InpaintBegin(image, mask, arg_num_steps, g, 1)
    /\ UNCHANGED <<schedule_vars, caller, result, sens_vars>>

NextGuidance ==
    \/ CallInpaint /\ UNCHANGED <<twin_vars, call_vars, api_vars>>
    \/ LoopStep /\ UNCHANGED <<twin_vars, call_vars, api_vars>>
    \/ InpaintReturn /\ UNCHANGED <<twin_vars, call_vars, api_vars>>
    \/ ManualSeed /\ UNCHANGED <<call_vars, api_vars>>
    \/ CallAgain /\ UNCHANGED <<twin_vars, call_vars, api_vars>>
InitGuidance == Init /\ rng = 0
SpecGuidance == InitGuidance /\ [][NextGuidance]_vars

\* ------------------------------------------------------------ every method of the model
\* a constructed model with a denoiser that returns and one that fails part-way
InitModel == Init /\ rng = 0 /\ model \in {"echo", "failing"}

NextModel ==
    \/ CallQSample
    \/ CallPSample
    \/ CallInpaint /\ UNCHANGED <<twin_vars, call_vars, api_vars>>
    \/ CallSensitivity /\ UNCHANGED <<twin_vars, call_vars, api_vars>>
    \/ SensIter /\ UNCHANGED <<twin_vars, call_vars, api_vars>>
    \/ LoopStep /\ UNCHANGED <<twin_vars, call_vars, api_vars>>
    \/ InpaintReturn /\ UNCHANGED <<twin_vars, call_vars, api_vars>>
    \/ SensCollect /\ UNCHANGED <<twin_vars, call_vars, api_vars>>
    \/ SensFinish /\ UNCHANGED <<twin_vars, call_vars, api_vars>>
SpecModel == InitModel /\ [][NextModel]_vars

\* ------------------------------------------------------------ POST /auth/register
\* the model object is not used by the API: one constructed model, left alone
InitApi == Constructed({1}) /\ rng = 0 /\ model = "zero"

EmailTaken(e) == \E u \in DOMAIN users : users[u].email = e

\* db.add(user); db.commit() (lines 120-121): the unique index on users.email
\* (models.py lines 87-89) refuses a second row with the email
InsertUser(r, e) ==
    IF EmailTaken(e)
    THEN [err |-> "IntegrityError", rows |-> users]
    ELSE [err |-> "none", rows |-> Append(users, [email |-> e, id |-> r])]

\* lines 104-111: the request arrives and its SELECT sees the committed rows
RegisterSelect(r) ==
    /\ reg[r].pc = "idle"
    /\ \E e \in Emails :
          reg' = [reg EXCEPT ![r] =
                    IF EmailTaken(e)
                    THEN [email |-> e, pc |-> "done", status |-> 400]
                    ELSE [email |-> e, pc |-> "commit", status |-> 0]]
    /\ UNCHANGED <<model_vars, users, me_log, case_row, upd>>

\* lines 114-134: the INSERT is committed; an exception that is not an
\* HTTPException leaves the endpoint and is answered with status 500
RegisterCommit(r) ==
    /\ reg[r].pc = "commit"
    /\ \E ins \in {InsertUser(r, reg[r].email)} :
          /\ users' = ins.rows
          /\ reg' = [reg EXCEPT ![r].pc = "done",
                                ![r].status = IF ins.err = "none" THEN 201 ELSE 500]
    /\ UNCHANGED <<model_vars, me_log, case_row, upd>>

NextRegister == \E r \in RegIds : RegisterSelect(r) \/ RegisterCommit(r)
SpecRegister == InitApi /\ [][NextRegister]_vars

\* ------------------------------------------------------------ GET /auth/me
\* What the Authorization header carries: nothing, or a bearer token. A token is
\* described by what jwt.decode and TokenPayload look at: whether it parses,
\* whether its signature is the server's, its exp claim, its type claim.
Token(wellformed, signed, exp, type) ==
    [present |-> TRUE, wellformed |-> wellformed, signed |-> signed, exp |-> exp,
     type |-> type]
NoCredentials ==
    [present |-> FALSE, wellformed |-> FALSE, signed |-> FALSE, exp |-> "missing",
     type |-> "missing"]
Credentials ==
    {NoCredentials,
     Token(FALSE, FALSE, "missing", "missing"),
     Token(TRUE, FALSE, "future", "access"),
     Token(TRUE, TRUE, "past", "access"),
     Token(TRUE, TRUE, "future", "refresh"),
     Token(TRUE, TRUE, "future", "missing"),
     Token(TRUE, TRUE, "missing", "access"),
     Token(TRUE, TRUE, "future", "access")}

\* the status HTTPBearer answers a request without bearer credentials with
\* (security.py line 26): 403 in FastAPI's releases up to 0.121, 401 since
BearerStatuses == {401, 403}

\* decode_token (lines 172-184): jwt.decode raises a JWTError for a token that
\* does not parse, is not signed with the key or has expired; TokenPayload
\* raises a ValidationError, which is not caught, for a missing claim
decode_token(tok) ==
    IF ~tok.wellformed \/ ~tok.signed \/ tok.exp = "past" THEN "HTTP401"
    ELSE IF tok.exp = "missing" \/ tok.type = "missing" THEN "ValidationError"
    ELSE "none"

\* get_current_user (lines 202-212) behind HTTPBearer: the status of the
\* rejection, 0 when the payload is handed to the endpoint
get_current_user(cred, bearer_status) ==
    IF ~cred.present THEN bearer_status
    ELSE IF decode_token(cred) = "HTTP401" THEN 401
    ELSE IF decode_token(cred) = "ValidationError" THEN 500
    ELSE IF cred.type # "access" THEN 401
    ELSE 0

\* GET /auth/me (auth.py lines 233-265): the handler runs once the dependency
\* has returned, and answers 200, or 404 when the user is gone
MeRequest ==
    /\ Len(me_log) < MaxRequests
    /\ \E cred \in Credentials, bs \in BearerStatuses, found \in BOOLEAN :
          \E st \in {get_current_user(cred, bs)} :
             me_log' = Append(me_log,
                          [cred |-> cred,
                           handler_ran |-> st = 0,
                           status |-> IF st # 0 THEN st ELSE IF found THEN 200 ELSE 404])
    /\ UNCHANGED <<model_vars, users, reg, case_row, upd>>

NextMe == MeRequest
SpecMe == InitApi /\ [][NextMe]_vars

\* ------------------------------------------------------------ PUT /cases/{case_id}
\* the requests a client sends to /cases/{case_id} to update a case: the method,
\* the role in its access token, whether case_id is the stored case's, and the
\* body's status and tags (a missing status is "absent", missing tags are {})
UpdateRequests ==
    [method : {"PUT", "PATCH"},
     role : {"admin", "clinician", "student"},
     case_id : {"existing", "unknown"},
     status : CaseStatusValues \cup {"in_progress", "absent"},
     tags : {{}, {<<"urgent">>}}]

\* CaseUpdateRequest.status is Optional[CaseStatus] (cases.py line 43)
StatusAccepted(st) == st = "absent" \/ st \in CaseStatusValues

\* the status the request is answered with
UpdateStatusCode(req) ==
    IF req.method # "PUT" THEN 405
    ELSE IF req.role \notin {"admin", "clinician"} THEN 403
    ELSE IF ~StatusAccepted(req.status) THEN 422
    ELSE IF req.case_id # "existing" THEN 404
    ELSE 200

\* update_case (cases.py lines 290-357) behind its route (PUT only, line 290),
\* require_clinician and the validation of the body
UpdateCase ==
    \E req \in UpdateRequests :
       \E code \in {UpdateStatusCode(req)} :
          /\ case_row' =
                IF code # 200 THEN case_row
                ELSE [status |-> IF req.status = "absent" THEN case_row.status
                                 ELSE req.status,
                      tags |-> IF req.tags = {} THEN case_row.tags
                               ELSE CHOOSE t \in req.tags : TRUE]
          /\ upd' = [req |-> req, status_code |-> code,
                     returned |-> IF code = 200 THEN case_row'.status ELSE "none"]
          /\ UNCHANGED <<model_vars, users, reg, me_log>>

NextCases == UpdateCase
SpecCases == InitApi /\ [][NextCases]_vars

\* ------------------------------------------------------------ properties
AllZero(m) == \A k \in Idx : m[k] = 0
AllOnes(m) == \A k \in Idx : m[k] = One
FiniteDenoiser == model \in {"zero", "echo"}

\* C1: with a denoiser that returns finite values, the state of inpaint equals the
\* image wherever mask = 0: in the masked initial state, after every reverse step
\* and in the current x, whatever the timestep and num_steps.
C1_MaskingInvariant ==
    (pc # "idle" /\ FiniteDenoiser) =>
        \A k \in Idx :
            mask[k] = 0 =>
                /\ x_init[k] = image[k]
                /\ x[k] = image[k]
                /\ \A j \in 1..Len(steps) : steps[j].x_out[k] = image[k]

\* several reverse steps done on a mask with both regions: the inpainted element
\* has moved, the other one is the image's
C1_Witness ==
    /\ pc = "loop" /\ FiniteDenoiser /\ Len(steps) >= 3
    /\ \E k \in Idx : mask[k] = 0 /\ x[k] = image[k]
    /\ \E k \in Idx : mask[k] = One /\ x[k] # image[k] /\ x[k] # x_init[k]

\* C2: with an all-zero mask, what inpaint returns as 'inpainted' is the image,
\* whatever the denoiser predicts.
C2_ZeroMaskReturnsImage ==
    (pc = "returned" /\ caller = "top" /\ AllZero(mask)) => result.inpainted = image

\* C3: inpaint with num_steps = 5 on a schedule of at least five timesteps and an
\* all-zero mask does not raise, and returns the image after its five steps.
C3_FiveStepsComplete ==
    (arg_num_steps = {5} /\ timesteps >= 5 /\ AllZero(mask) /\ pc # "idle") =>
        /\ pc # "raised"
        /\ pc = "returned" => (Len(steps) = 5 /\ result.inpainted = image)
\* C4: if all counterfactual predictions of a sensitivity_analysis that returns are
\* identical (the same numbers, none of them NaN), counterfactual_std is 0 and
\* sensitivity_confidence is 1.0 in every element, for every num_samples >= 1.
C4_IdenticalPredictions ==
    (pc = "returned" /\ caller = "sens" /\ num_samples >= 1
       /\ \A j \in 1..Len(counterfactual_preds) :
             /\ counterfactual_preds[j] = counterfactual_preds[1]
             /\ \A k \in Idx : IsFinite(counterfactual_preds[j][k])) =>
        \A k \in Idx :
            /\ analysis.counterfactual_std[k] = 0
            /\ analysis.sensitivity_confidence[k] = One

\* C5: an inpaint call with 1 <= num_steps <= T ends by returning, after exactly
\* num_steps reverse steps at the timesteps num_steps-1, ..., 0 in that order, each
\* fed the output of the one before (the first the masked initial state), and
\* 'inpainted' is the output of the step at t = 0.
C5_SequentialSteps ==
    (Finished /\ caller = "top" /\ 1 <= num_steps /\ num_steps <= timesteps) =>
        /\ pc = "returned"
        /\ Len(steps) = num_steps
        /\ \A j \in 1..Len(steps) :
              /\ steps[j].t = num_steps - j
              /\ steps[j].x_in = IF j = 1 THEN x_init ELSE steps[j - 1].x_out
        /\ result.inpainted = steps[Len(steps)].x_out

\* C6: the reverse step at t = 0 draws no noise: the tensor it returned is the one
\* p_sample returns on the same x, mask and original in every generator state,
\* it is the posterior mean under the mask constraint, and the generator is left
\* as it was.
C6_FinalStepDeterministic ==
    \A j \in 1..Len(steps) :
        steps[j].t = 0 =>
            /\ ~steps[j].drew
            /\ \A r \in RngStates :
                  LET o == p_sample(steps[j].x_in, [k \in Idx |-> 0], mask, image, TRUE, r)
                  IN  o.x = steps[j].x_out /\ o.rng = r
            /\ \A k \in Idx :
                  steps[j].x_out[k] =
                      ApplyMask(PosteriorMean(steps[j].x_in[k],
                                              X0Pred(steps[j].x_in[k],
                                                     ModelAt(model, steps[j].x_in[k], 0, mask[k]),
                                                     At(alphas_cumprod, 0)),
                                              At(betas, 0), At(alphas_cumprod, 0),
                                              At(alphas_cumprod_prev, 0)),
                                mask[k], image[k])

\* the step at t = 0 of a run whose earlier steps drew noise, on an inpainted element
C6_Witness ==
    /\ Len(steps) >= 2
    /\ steps[Len(steps)].t = 0 /\ steps[Len(steps) - 1].drew
    /\ \E k \in Idx : mask[k] = One /\ steps[Len(steps)].x_out[k] # steps[Len(steps)].x_in[k]

\* C7: with an all-ones mask, two inpaint calls that differ only in the image hold
\* the same state from the masked initial state on, hand the denoiser the same
\* inputs at every step and return the same 'inpainted'.
C7_OnesMaskIgnoresImage ==
    (pc # "idle" /\ AllOnes(mask)) =>
        /\ x2 = x
        /\ Len(denoiser_in2) = Len(steps)
        /\ \A j \in 1..Len(steps) : denoiser_in2[j] = steps[j].x_in
        /\ pc = "returned" => result2.inpainted = result.inpainted

\* both calls have returned after a full trajectory, from images that differ everywhere
C7_Witness ==
    /\ pc = "returned" /\ AllOnes(mask) /\ Len(steps) >= SnapshotCount
    /\ \A k \in Idx : image2[k] # image[k]
    /\ result2.inpainted = result.inpainted
    /\ \E k \in Idx : result.inpainted[k] # x_init[k]

\* the calls sensitivity_analysis makes with n samples, when nothing goes wrong
ExpectedCalls(n) ==
    [j \in 1..(2 * n + 1) |->
        IF j = 1 THEN [fn |-> "prediction_fn", arg |-> image]
        ELSE IF j % 2 = 0 THEN [fn |-> "inpaint", arg |-> image]
        ELSE [fn |-> "prediction_fn", arg |-> inpainted_images[(j - 1) \div 2]]]

\* C8: a sensitivity_analysis call with num_samples = n >= 1 ends by returning,
\* after prediction_fn(image), then n times an inpaint call followed by
\* prediction_fn on its output: n + 1 prediction_fn calls, n inpaint calls, and
\* inpainted_samples holds the n outputs in call order.
C8_CallSequence ==
    (Finished /\ caller = "sens" /\ num_samples >= 1) =>
        /\ pc = "returned"
        /\ Len(inpainted_images) = num_samples
        /\ calls = ExpectedCalls(num_samples)
        /\ analysis.inpainted_samples = inpainted_images

\* C9: no inpaint run of a sensitivity_analysis reads state that another run wrote:
\* every read of the generator finds it as the seed or the same run left it.
C9_RunsShareOnlyReadOnlyState ==
    \A rw \in rng_reads : rw[2] = 0 \/ rw[2] = rw[1]

\* C10: inpaint called with num_steps < 1 executes no reverse step and ends with
\* an InvalidConfig error, never with a result.
C10_RejectsNonPositiveSteps ==
    (pc # "idle" /\ caller = "top" /\ \E n \in arg_num_steps : n < 1) =>
        /\ steps = <<>>
        /\ pc # "returned"
        /\ pc = "raised" => error = "InvalidConfig"

\* C11: inpaint called with num_steps greater than the number of timesteps ends
\* with an InvalidConfig error, never with a result.
C11_RejectsTooManySteps ==
    (pc # "idle" /\ caller = "top" /\ \E n \in arg_num_steps : n > timesteps) =>
        /\ pc # "returned"
        /\ pc = "raised" => error = "InvalidConfig"

\* C14: sensitivity_analysis called with num_samples < 1 ends with an
\* InvalidConfig error, never with a result.
C14_RejectsNonPositiveSamples ==
    (pc # "idle" /\ caller = "sens" /\ num_samples < 1) =>
        /\ pc # "returned"
        /\ pc = "raised" => error = "InvalidConfig"

\* C12: p_sample called with a timestep outside [0, T-1], negative or >= T, ends
\* with an InvalidTimestep error and returns no tensor.
C12_RejectsTimestepOutsideSchedule ==
    (caller = "p_sample" /\ pc # "idle"
       /\ \E k \in Idx : ps_args.t[k] < 0 \/ ps_args.t[k] >= timesteps) =>
        /\ pc = "raised" /\ error = "InvalidTimestep"
        /\ ps_out = <<>>

\* a call with t = -1 in every entry has returned a tensor: the index wrapped to T - 1
C12_Witness ==
    /\ caller = "p_sample" /\ pc = "returned" /\ timesteps > 1
    /\ \A k \in Idx : ps_args.t[k] = 0 - 1
    /\ Len(ps_out) = B

\* C13: p_sample called with a mask or an original whose shape is not the shape
\* of x ends with a ShapeMismatch error and returns no tensor.
C13_RejectsShapeMismatch ==
    (caller = "p_sample" /\ pc # "idle"
       /\ \/ Len(ps_args.mask) # Len(ps_args.x)
          \/ \E o \in ps_args.original : Len(o) # Len(ps_args.x)) =>
        /\ pc = "raised" /\ error = "ShapeMismatch"
        /\ ps_out = <<>>

\* a call with a mask and an original of batch size one beside an x of batch size
\* B has returned a tensor: both were broadcast
C13_Witness ==
    /\ caller = "p_sample" /\ pc = "returned"
    /\ Len(ps_args.x) = B /\ Len(ps_args.mask) = 1
    /\ \E o \in ps_args.original : Len(o) = 1
    /\ Len(ps_out) = B

\* C15: when prediction_fn raises, on the original image or on a sample,
\* sensitivity_analysis ends with that same error: the raising call is the last
\* call it makes (no inpaint call and no prediction_fn call follows) and no
\* result dictionary is returned.
C15_PredictorFailurePropagates ==
    \A j \in 1..Len(calls) :
        (calls[j].fn = "prediction_fn" /\ PredictError(prediction_fn, calls[j].arg) # "none") =>
            /\ j = Len(calls)
            /\ pc = "raised" /\ error = PredictError(prediction_fn, calls[j].arg)
            /\ analysis = <<>>

\* prediction_fn has raised on the second sample, after it returned on the
\* original image and on the first sample
C15_Witness ==
    /\ caller = "sens" /\ pc = "raised" /\ error = "PredictorFailure"
    /\ Len(calls) = 5 /\ Len(counterfactual_preds) = 1 /\ Len(inpainted_images) = 2

\* C16: when the denoiser raises in the reverse step at timestep t, inpaint ends
\* with that error and without a result: the denoiser was run once on each of
\* the timesteps num_steps-1, ..., t, in that order, and on none below t.
C16_DenoiserFailurePropagates ==
    \A j \in 1..Len(denoiser_calls) :
        /\ denoiser_calls[j] = num_steps - j
        /\ ModelError(model, <<denoiser_calls[j]>>) # "none" =>
              /\ j = Len(denoiser_calls)
              /\ pc = "raised" /\ error = ModelError(model, <<denoiser_calls[j]>>)
              /\ caller = "top" => result = NoResult

\* the denoiser has raised at timestep 4 of a run that started above it
C16_Witness ==
    /\ caller = "top" /\ pc = "raised" /\ error = "DenoiserFailure"
    /\ Len(steps) >= 5 /\ Len(denoiser_calls) = Len(steps) + 1
    /\ denoiser_calls[Len(denoiser_calls)] = 4

\* the config is the valid one of the claims about the schedule: T >= 1 and
\* 0 < beta_start < beta_end < 1, with one of the three schedules
ValidConfig ==
    /\ timesteps >= 1
    /\ FLt(0, beta_start) /\ FLt(beta_start, beta_end) /\ FLt(beta_end, One)
    /\ beta_schedule \in {"linear", "cosine", "quadratic"}

\* a config value float32 keeps apart from 0.0 and from 1.0, in a sum as well
Float32Safe(b) == b # Tiny /\ b # NearOne

\* C17: constructing the model from a config with timesteps <= 0 ends with an
\* InvalidConfig error and registers no schedule: no model with a schedule of
\* length 0 exists.
C17_RejectsNonPositiveTimesteps ==
    (pc # "new" /\ timesteps <= 0) =>
        /\ pc = "raised" /\ error = "InvalidConfig"
        /\ registered = {}

\* a model has been constructed with timesteps = 0: its schedule is empty, and
\* alphas_cumprod_prev has one entry
C17_Witness ==
    /\ pc = "idle" /\ timesteps = 0 /\ beta_schedule \in {"linear", "cosine", "quadratic"}
    /\ registered = BufferNames /\ model # "none"
    /\ betas = <<>> /\ alphas_cumprod = <<>> /\ posterior_variance = <<>>
    /\ alphas_cumprod_prev = <<One>>

\* C18: for a schedule name other than linear, cosine and quadratic,
\* get_beta_schedule raises an error and returns no schedule, and the
\* construction ends with that error before a buffer is registered or the
\* denoiser is created.
C18_UnknownScheduleRaises ==
    (pc # "new" /\ beta_schedule \notin {"linear", "cosine", "quadratic"}) =>
        /\ get_beta_schedule(beta_schedule, timesteps, beta_start, beta_end).err # "none"
        /\ get_beta_schedule(beta_schedule, timesteps, beta_start, beta_end).betas = <<>>
        /\ pc = "raised"
        /\ error = get_beta_schedule(beta_schedule, timesteps, beta_start, beta_end).err
        /\ registered = {} /\ betas = <<>> /\ model = "none"

\* the construction from an otherwise valid config with an unknown schedule name
\* has ended with ValueError
C18_Witness ==
    /\ pc = "raised" /\ error = "ValueError"
    /\ beta_schedule = "sigmoid" /\ timesteps >= SnapshotCount
    /\ beta_start = BetaStart /\ beta_end = BetaEnd

C21_ZeroNoiseScalesStart ==
    [][(caller' = "q_sample" /\ qs_args'.noise # {}) =>
          /\ rng' = rng
          /\ (pc' = "returned" /\ (\E n \in qs_args'.noise : \A k \in DOMAIN n : n[k] = 0)) =>
                \A k \in Idx :
                   qs_out'[k] =
                      FMul(At(sqrt_alphas_cumprod, qs_args'.t[k]), qs_args'.x_start[k])]_vars

\* q_sample has returned from a call with zero noise and two different timesteps
C21_Witness ==
    /\ caller = "q_sample" /\ pc = "returned" /\ qs_args.noise = {Zeros}
    /\ qs_args.t[1] = 0 /\ qs_args.t[B] = timesteps - 1 /\ timesteps > 1
    /\ qs_out[1] # qs_out[B] /\ qs_args.x_start[1] = qs_args.x_start[B]

\* C22: once the model is constructed, no step of q_sample, p_sample, inpaint or
\* sensitivity_analysis changes a schedule array; while a call runs, the caller's
\* image and mask stay what they were when it began; the "original" and "mask"
\* entries inpaint returns are the image and the mask it was given.
C22_SchedulesAndInputsUntouched ==
    [][/\ buffer_vars' = buffer_vars
       /\ pc # "idle" => (image' = image /\ mask' = mask)
       /\ result' # result => (result'.original = image /\ result'.mask = mask)]_vars

\* inpaint has returned inside sensitivity_analysis after reverse steps that
\* moved the working tensor away from the image
C22_Witness ==
    /\ caller = "sens" /\ pc = "sens_collect" /\ Len(steps) >= SnapshotCount
    /\ result.inpainted # image /\ result.original = image /\ mask # Zeros

\* the outputs of the reverse steps whose timestep is a multiple of k, in order
RECURSIVE SnapshotsOf(_, _)
SnapshotsOf(ss, k) ==
    IF ss = <<>> THEN <<>>
    ELSE LET before == SnapshotsOf(SubSeq(ss, 1, Len(ss) - 1), k)
             last == ss[Len(ss)]
         IN  IF last.t % k = 0 THEN Append(before, last.x_out) ELSE before

IsPrefix(a, b) == Len(a) <= Len(b) /\ \A j \in 1..Len(a) : a[j] = b[j]

\* ceil(n / k)
CeilDiv(n, k) == (n + k - 1) \div k

\* C23: for num_steps >= 10 and k = num_steps // 10, at every moment of an inpaint
\* call the intermediates are the outputs of the reverse steps done so far at the
\* timesteps i with i mod k = 0, in the order of the steps (decreasing timestep);
\* a step only appends to them; the call that returns has
\* ceil(num_steps / k) of them.
C23_SnapshotPolicy ==
    [][(pc' \in {"loop", "returned", "raised"} /\ caller' = "top"
          /\ num_steps' >= SnapshotCount) =>
          /\ intermediates' = SnapshotsOf(steps', num_steps' \div SnapshotCount)
          /\ \A j \in 2..Len(steps') : steps'[j].t < steps'[j - 1].t
          /\ pc = "loop" => IsPrefix(intermediates, intermediates')
          /\ pc' = "returned" =>
                /\ Len(result'.intermediates) =
                      CeilDiv(num_steps', num_steps' \div SnapshotCount)
                /\ result'.intermediates = intermediates']_vars

\* inpaint has returned from a run with num_steps // 10 = 2 and an odd number
\* of steps: steps were skipped, and snapshots differ from one another
C23_Witness ==
    /\ pc = "returned" /\ caller = "top" /\ num_steps \div SnapshotCount = 2
    /\ num_steps % 2 = 1
    /\ Len(steps) = num_steps /\ Len(result.intermediates) < Len(steps)
    /\ \E a, b \in 1..Len(result.intermediates) :
          result.intermediates[a] # result.intermediates[b]

\* C24: whatever the order in which register requests arrive and run, a request
\* that has been answered, for an email that belongs to a user it did not create,
\* was answered with status 400, and no two rows of the user table have the same
\* email.
C24_DuplicateEmailRejected ==
    /\ \A a, b \in DOMAIN users : users[a].email = users[b].email => a = b
    /\ \A r \in RegIds :
          (reg[r].pc = "done"
             /\ \E u \in DOMAIN users : users[u].email = reg[r].email /\ users[u].id # r) =>
              reg[r].status = 400

\* two requests for one email ran side by side: one created the user, the
\* other one's INSERT was refused and it was answered with status 500
C24_Witness ==
    \E r, q \in RegIds :
        /\ r # q /\ reg[r].email = reg[q].email
        /\ reg[r].pc = "done" /\ reg[r].status = 201
        /\ reg[q].pc = "done" /\ reg[q].status = 500
        /\ Len(users) = 1

\* a token that parses, is signed by the server, has not expired and is of type
\* "access"
ValidAccessToken(cred) ==
    /\ cred.present
    /\ cred.wellformed /\ cred.signed /\ cred.exp = "future" /\ cred.type = "access"

\* C25: every GET /auth/me request that does not carry a valid access token is
\* answered with status 401, and the endpoint's handler has not run for it.
C25_RejectsWithoutAccessToken ==
    \A j \in DOMAIN me_log :
        ~ValidAccessToken(me_log[j].cred) =>
            /\ me_log[j].status = 401
            /\ ~me_log[j].handler_ran

\* a request with a token signed by the server that has no type claim was
\* answered with status 500
C25_Witness ==
    \E j \in DOMAIN me_log :
        /\ me_log[j].cred.present
        /\ me_log[j].cred.signed /\ me_log[j].cred.type = "missing"
        /\ me_log[j].status = 500 /\ ~me_log[j].handler_ran

\* C26: a request of a clinician that updates the existing case with a status
\* and tags, sent the way the test sends it or as a PUT, is answered with status
\* 200, and the stored and the returned status are the requested one.
C26_UpdateStoresRequestedStatus ==
    (upd.req.role = "clinician" /\ upd.req.case_id = "existing"
       /\ upd.req.status # "absent" /\ upd.req.tags # {}) =>
        /\ upd.status_code = 200
        /\ upd.returned = upd.req.status
        /\ case_row.status = upd.req.status

\* a clinician's PUT with status "in_progress" and tags was answered 422 and
\* the stored case kept its status
C26_Witness ==
    /\ upd.req.method = "PUT" /\ upd.req.role = "clinician"
    /\ upd.req.case_id = "existing" /\ upd.req.status = "in_progress"
    /\ upd.req.tags = {<<"urgent">>}
    /\ upd.status_code = 422 /\ case_row.status \in CaseStatusValues

\* element k of what a direct p_sample call returns when the noise term is added
\* to it or not as draws says (the generator was in state rng2 before the call)
DirectCallAt(k, draws) ==
    LET orig == IF ps_args.original = {} THEN Zeros ELSE CHOOSE o \in ps_args.original : TRUE
    IN  PSampleAt(ps_args.x[k], ps_args.t[k], Elem(ps_args.mask, k), Elem(orig, k),
                  ps_args.original # {},
                  ModelAt(model, ps_args.x[k], ps_args.t[k], Elem(ps_args.mask, k)),
                  Gauss(RngAfter(rng2, k - 1)), draws)

\* C27: in the tensor a p_sample call returns, each batch element has the noise
\* term sqrt(posterior_variance[t]) * noise added exactly when its own timestep
\* is > 0, and is the bare posterior mean when its timestep is 0, also when the
\* timesteps of the batch differ.
C27_NoisePerElement ==
    (caller = "p_sample" /\ pc = "returned") =>
        \A k \in Idx : ps_out[k] = DirectCallAt(k, ps_args.t[k] > 0)

\* p_sample has returned from a call whose first timestep is 0 and whose last
\* is above 0: the last element came back without the noise term, which would
\* have changed it
C27_Witness ==
    /\ caller = "p_sample" /\ pc = "returned"
    /\ ps_args.t[1] = 0 /\ ps_args.t[B] > 0
    /\ ps_out[B] = DirectCallAt(B, FALSE)
    /\ ps_out[B] # DirectCallAt(B, TRUE)

\* C28: an inpaint call with num_steps >= 10 that returns has a non-empty
\* intermediates list whose last entry is the returned "inpainted" tensor: the
\* step at timestep 0 is always followed by a snapshot.
C28_LastSnapshotIsResult ==
    (pc = "returned" /\ caller = "top" /\ num_steps >= SnapshotCount) =>
        /\ result.intermediates # <<>>
        /\ result.intermediates[Len(result.intermediates)] = result.inpainted
        /\ steps[Len(steps)].t = 0

\* inpaint has returned from a run that took a snapshot after every second
\* step only and whose last two steps differ in their output
C28_Witness ==
    /\ pc = "returned" /\ caller = "top" /\ num_steps \div SnapshotCount = 2
    /\ 2 * Len(result.intermediates) <= Len(steps) + 1
    /\ steps[Len(steps)].x_in # steps[Len(steps)].x_out
    /\ FiniteDenoiser

\* the case of C29: sensitivity_analysis has returned from a model of at least ten
\* timesteps whose denoiser returns finite values, with an all-zero mask and two
\* samples or more (every prediction_fn of the model is deterministic)
ZeroMaskAnalysis ==
    /\ pc = "returned" /\ caller = "sens"
    /\ timesteps >= SnapshotCount /\ AllZero(mask) /\ FiniteDenoiser
    /\ num_samples >= 2

\* what the case gives whatever the number of samples: the samples are the image,
\* the predictions agree, and the mean is the original prediction on the grid
ZeroMaskSamples ==
    /\ Len(analysis.inpainted_samples) = num_samples
    /\ \A j \in 1..num_samples : analysis.inpainted_samples[j] = image
    /\ \A k \in Idx :
          /\ analysis.counterfactual_mean[k] = analysis.original_prediction[k]
          /\ analysis.counterfactual_std[k] = 0
          /\ analysis.sensitivity_confidence[k] = One

====
